---- MODULE Spec2Model ----
(***************************************************************************)
(* Model of scripts/update-games.js: one run of updateGamesDatabase        *)
(* (load, paginated fetch, merge, two file writes), the pure function      *)
(* mergeApps on its own, and consecutive runs against a remote listing     *)
(* that filters by if_modified_since.                                      *)
(*                                                                         *)
(* An optional JSON value (a field that may be absent, or null) is a set:  *)
(* {} when absent, {v} when present.                                       *)
(***************************************************************************)
EXTENDS Integers, Sequences, FiniteSets, TLC

\* ---- bounds ----
MaxId == 2          \* application identifiers are 1..MaxId
MaxPageLen == 1     \* records in one page of an arbitrary endpoint
MaxPages == 3       \* requests of one fetchAllApps call
MaxCat == 2         \* entries of the catalog array found on disk
MaxWm == 1          \* lastFetchTimestamp found on disk
MaxTicks == 2       \* ticks of the clock while requests are in flight
MaxRuns == 2        \* consecutive runs against the filtering remote
MaxArr == 3         \* catalog length handed to mergeApps on its own
MaxRecs == 3        \* records handed to mergeApps on its own
PageSize == 1       \* records per page of the filtering remote

\* ---- clock ----
TickMs == 500       \* granularity of the passage of time
CooldownMs == 1000  \* setTimeout(resolve, 1000)
MsPerSec == 1000    \* Date.now() / 1000

\* Date.now() when the first run starts: no watermark on disk lies in the future
StartMs == MaxWm * MsPerSec + TickMs

\* the clock stops ticking here
MaxTimeMs == StartMs + MaxTicks * TickMs

Ids == 1..MaxId

SeqsUpTo(S, n) == UNION {[1..k -> S] : k \in 0..n}

Range(s) == {s[i] : i \in 1..Len(s)}

VARIABLES
  gamesFile,   \* content of games.json
  metaFile,    \* content of metadata.json
  backups,     \* number of games.backup.<ms>.json files
  pc,          \* "start", "await", "cooldown", "done", or "harness"
  games,       \* updateGamesDatabase: const games (the array, mutated in place)
  metadata,    \* updateGamesDatabase: const metadata
  allApps,     \* fetchAllApps: allApps
  lastAppId,   \* fetchAllApps: lastAppId
  pageCount,   \* fetchAllApps: pageCount
  hasMore,     \* fetchAllApps: hasMore
  addedCount,  \* the count returned by the last mergeApps call
  exitCode,    \* process exit status
  failedAt,    \* where the exception caught at line 201 was thrown, or "none"
  requests,    \* the requests issued by the current fetchAllApps call
  responses,   \* the responses it received
  pre,         \* contents of the two files when the run started
  now,         \* Date.now(), milliseconds
  wire,        \* answer of the filtering remote, in flight
  modified,    \* filtering remote: last modification time of each app, 0 = no such app
  runs,        \* runs started
  calls,       \* mergeApps calls made on the same array
  first        \* the array after the first of them

vars == <<gamesFile, metaFile, backups, pc, games, metadata, allApps, lastAppId,
          pageCount, hasMore, addedCount, exitCode, failedAt, requests, responses,
          pre, now, wire, modified, runs, calls, first>>

\* ---- files ----

\* games.json: absent, or a byte-order mark followed by a body
NoGamesFile == [exists |-> FALSE, bom |-> FALSE, kind |-> "none", data |-> <<>>]

\* JSON.stringify(games, null, 2)
StringifyGames(g) == [exists |-> TRUE, bom |-> FALSE, kind |-> "array", data |-> g]

\* metadata of a first run
DefaultMetadata ==
  [lastFetchTimestamp |-> 0, lastUpdateDate |-> {}, totalGames |-> 0, lastRunStats |-> {}]

NoMetaFile == [exists |-> FALSE, kind |-> "none", obj |-> DefaultMetadata]

\* JSON.stringify(metadata, null, 2)
StringifyMetadata(m) == [exists |-> TRUE, kind |-> "object", obj |-> m]

\* what a file holds after writeFileSync returned or threw
\*   "ok": written; "denied": open failed; "truncated": opened with flag w, write failed
WriteOutcomes == {"ok", "denied", "truncated"}

WriteGamesFile(old, g, o) ==
  CASE o = "ok" -> StringifyGames(g)
    [] o = "denied" -> old
    [] OTHER -> [exists |-> TRUE, bom |-> FALSE, kind |-> "empty", data |-> <<>>]

WriteMetaFile(old, m, o) ==
  CASE o = "ok" -> StringifyMetadata(m)
    [] o = "denied" -> old
    [] OTHER -> [exists |-> TRUE, kind |-> "empty", obj |-> DefaultMetadata]

\* loadGamesData: the array it returns and whether it made a backup copy
loadGamesData(f) ==
  IF ~f.exists THEN [games |-> <<>>, backup |-> FALSE]
  ELSE IF f.kind = "empty" THEN [games |-> <<>>, backup |-> FALSE]
  ELSE IF f.kind = "garbage" THEN [games |-> <<>>, backup |-> TRUE]
  ELSE IF f.kind = "nonarray" THEN [games |-> <<>>, backup |-> FALSE]
  ELSE [games |-> f.data, backup |-> FALSE]

\* loadMetadata: JSON.parse throws on anything but a JSON text
loadMetadata(f) ==
  IF ~f.exists THEN [ok |-> TRUE, metadata |-> DefaultMetadata]
  ELSE IF f.kind = "object" THEN [ok |-> TRUE, metadata |-> f.obj]
  ELSE [ok |-> FALSE, metadata |-> DefaultMetadata]

\* ---- mergeApps ----

RECURSIVE Insert(_, _)
Insert(s, x) ==
  IF s = <<>> THEN <<x>>
  ELSE IF x - s[1] < 0 THEN <<x>> \o s
  ELSE <<s[1]>> \o Insert(Tail(s), x)

RECURSIVE SortAsc(_)
\* existingGames.sort((a, b) => a - b)
SortAsc(s) == IF s = <<>> THEN <<>> ELSE Insert(SortAsc(SubSeq(s, 1, Len(s) - 1)), s[Len(s)])

\* NewSet that starts from an empty set
NewSetEmpty(existingGames) == {}

\* new Set(existingGames)
NewSet(existingGames) == Range(existingGames)

RECURSIVE MergeLoopNoSetAdd(_, _, _, _)
\* MergeLoop without line 152: an added appid is not remembered
MergeLoopNoSetAdd(existingGames, existingSet, count, newApps) ==
  IF newApps = <<>> THEN [games |-> existingGames, addedCount |-> count]
  ELSE IF newApps[1] \notin existingSet
       THEN MergeLoopNoSetAdd(Append(existingGames, newApps[1]), existingSet,
                              count + 1, Tail(newApps))
       ELSE MergeLoopNoSetAdd(existingGames, existingSet, count, Tail(newApps))

RECURSIVE MergeLoop(_, _, _, _)
\* for (const app of newApps) { ... }: newApps is a sequence of appids
MergeLoop(existingGames, existingSet, count, newApps) ==
  IF newApps = <<>> THEN [games |-> existingGames, addedCount |-> count]
  ELSE IF newApps[1] \notin existingSet
       THEN MergeLoop(Append(existingGames, newApps[1]), existingSet \cup {newApps[1]},
                      count + 1, Tail(newApps))
       ELSE MergeLoop(existingGames, existingSet, count, Tail(newApps))

\* mergeApps that sorts only when something was added
mergeAppsSortIfAdded(existingGames, newApps) ==
  LET r == MergeLoop(existingGames, NewSet(existingGames), 0, newApps)
  IN  [games |-> IF r.addedCount > 0 THEN SortAsc(r.games) ELSE r.games,
       addedCount |-> r.addedCount]

mergeApps(existingGames, newApps) ==
  LET r == MergeLoop(existingGames, NewSet(existingGames), 0, newApps)
  IN  [games |-> SortAsc(r.games), addedCount |-> r.addedCount]

\* ---- fetchAllApps ----

\* what the endpoint may answer: data.response
Pages == {{}} \cup {{s} : s \in SeqsUpTo(Ids, MaxPageLen)}

Responses ==
  [apps : Pages,
   have_more_results : {{}, {TRUE}, {FALSE}},
   last_appid : {{}} \cup {{c} : c \in 0..MaxId}]

FailureKinds == {"transport", "http", "malformed"}

\* BuildRequest that sends the watermark with the first request only
BuildRequestFirstOnly(cursor, ifModifiedSince) ==
  [last_appid |-> IF cursor > 0 THEN {cursor} ELSE {},
   if_modified_since |-> IF ifModifiedSince > 0 /\ cursor = 0 THEN {ifModifiedSince} ELSE {}]

\* lines 90-105: the optional parameters of the request
BuildRequest(cursor, ifModifiedSince) ==
  [last_appid |-> IF cursor > 0 THEN {cursor} ELSE {},
   if_modified_since |-> IF ifModifiedSince > 0 THEN {ifModifiedSince} ELSE {}]

\* lines 121-124
Accumulate(apps, resp) ==
  IF resp.apps # {} /\ (\E s \in resp.apps : Len(s) > 0)
  THEN apps \o (CHOOSE s \in resp.apps : TRUE)
  ELSE apps

\* HasMore that also stops at a page without records
HasMoreNonEmpty(resp) ==
  resp.have_more_results = {TRUE} /\ (\E s \in resp.apps : Len(s) > 0)

\* line 126: responseData.have_more_results || false
HasMore(resp) == resp.have_more_results = {TRUE}

\* line 127: responseData.last_appid || 0
NextCursor(resp) == IF resp.last_appid = {} THEN 0 ELSE CHOOSE c \in resp.last_appid : TRUE

\* ---- updateGamesDatabase ----

\* NewMetadata with the two counts of lastRunStats swapped
NewMetadataSwapped(old, nowMs, g, received, added) ==
  [lastFetchTimestamp |-> nowMs \div MsPerSec,
   lastUpdateDate |-> {nowMs},
   totalGames |-> Len(g),
   lastRunStats |-> {[appsReceived |-> added, gamesAdded |-> received]}]

\* lines 187-193
NewMetadata(old, nowMs, g, received, added) ==
  [lastFetchTimestamp |-> nowMs \div MsPerSec,
   lastUpdateDate |-> {nowMs},
   totalGames |-> Len(g),
   lastRunStats |-> {[appsReceived |-> received, gamesAdded |-> added]}]

\* lines 163-176 and the first pass through lines 87-112: both files load, the first
\* request is sent
StartRun ==
  /\ pc = "start"
  /\ loadMetadata(metaFile).ok
  /\ LET g == loadGamesData(gamesFile)
         m == loadMetadata(metaFile).metadata
     IN  /\ games' = g.games
         /\ backups' = backups + (IF g.backup THEN 1 ELSE 0)
         /\ metadata' = m
         /\ requests' = <<BuildRequest(0, m.lastFetchTimestamp)>>
  /\ pre' = [games |-> gamesFile, meta |-> metaFile]
  /\ allApps' = <<>>
  /\ lastAppId' = 0
  /\ pageCount' = 1
  /\ hasMore' = TRUE
  /\ responses' = <<>>
  /\ pc' = "await"
  /\ UNCHANGED <<gamesFile, metaFile, addedCount, exitCode, failedAt, now, wire,
                 modified, runs, calls, first>>

\* lines 169-170 and 201-204: JSON.parse of metadata.json throws
StartRunFail ==
  /\ pc = "start"
  /\ ~loadMetadata(metaFile).ok
  /\ LET g == loadGamesData(gamesFile)
     IN  /\ games' = g.games
         /\ backups' = backups + (IF g.backup THEN 1 ELSE 0)
  /\ pre' = [games |-> gamesFile, meta |-> metaFile]
  /\ pc' = "done"
  /\ exitCode' = 1
  /\ failedAt' = "load"
  /\ UNCHANGED <<gamesFile, metaFile, metadata, allApps, lastAppId, pageCount, hasMore,
                 addedCount, requests, responses, now, wire, modified, runs, calls, first>>

\* FetchFail that saves the records accumulated so far
FetchFailKeepsPartial(kind) ==
  /\ pc = "await"
  /\ pc' = "done"
  /\ exitCode' = 1
  /\ failedAt' = kind
  /\ wire' = {}
  /\ gamesFile' = IF allApps = <<>> THEN gamesFile
                  ELSE StringifyGames(mergeApps(games, allApps).games)
  /\ UNCHANGED <<metaFile, backups, games, metadata, allApps, lastAppId,
                 pageCount, hasMore, addedCount, requests, responses, pre, now,
                 modified, runs, calls, first>>

\* lines 112-118, 134-137, 201-204: fetch rejects, response.ok is false, or the body
\* is not the expected JSON
FetchFail(kind) ==
  /\ pc = "await"
  /\ pc' = "done"
  /\ exitCode' = 1
  /\ failedAt' = kind
  /\ wire' = {}
  /\ UNCHANGED <<gamesFile, metaFile, backups, games, metadata, allApps, lastAppId,
                 pageCount, hasMore, addedCount, requests, responses, pre, now,
                 modified, runs, calls, first>>

\* lines 112-132 for a page that is not the last
FetchPageMore(resp) ==
  /\ pc = "await"
  /\ HasMore(resp)
  /\ allApps' = Accumulate(allApps, resp)
  /\ hasMore' = HasMore(resp)
  /\ lastAppId' = NextCursor(resp)
  /\ responses' = Append(responses, resp)
  /\ pc' = "cooldown"
  /\ wire' = {}
  /\ UNCHANGED <<gamesFile, metaFile, backups, games, metadata, pageCount, addedCount,
                 exitCode, failedAt, requests, pre, now, modified, runs, calls, first>>

\* line 131, then lines 87-112: the timer fires, the next request is sent
Cooldown ==
  /\ pc = "cooldown"
  /\ pageCount < MaxPages
  /\ now' = now + CooldownMs
  /\ pageCount' = pageCount + 1
  /\ requests' = Append(requests, BuildRequest(lastAppId, metadata.lastFetchTimestamp))
  /\ pc' = "await"
  /\ UNCHANGED <<gamesFile, metaFile, backups, games, metadata, allApps, lastAppId,
                 hasMore, addedCount, exitCode, failedAt, responses, pre, wire,
                 modified, runs, calls, first>>

\* FetchLastNoop that advances the watermark all the same
FetchLastNoopAdvances(resp) ==
  /\ pc = "await"
  /\ ~HasMore(resp)
  /\ Len(Accumulate(allApps, resp)) = 0
  /\ allApps' = Accumulate(allApps, resp)
  /\ hasMore' = HasMore(resp)
  /\ lastAppId' = NextCursor(resp)
  /\ responses' = Append(responses, resp)
  /\ metadata' = [metadata EXCEPT !.lastFetchTimestamp = now \div MsPerSec]
  /\ metaFile' = StringifyMetadata(metadata')
  /\ pc' = "done"
  /\ exitCode' = 0
  /\ wire' = {}
  /\ UNCHANGED <<gamesFile, backups, games, pageCount, addedCount, failedAt,
                 requests, pre, now, modified, runs, calls, first>>

\* lines 112-141 for the last page, then lines 178-179 and 198-199
FetchLastNoop(resp) ==
  /\ pc = "await"
  /\ ~HasMore(resp)
  /\ Len(Accumulate(allApps, resp)) = 0
  /\ allApps' = Accumulate(allApps, resp)
  /\ hasMore' = HasMore(resp)
  /\ lastAppId' = NextCursor(resp)
  /\ responses' = Append(responses, resp)
  /\ pc' = "done"
  /\ exitCode' = 0
  /\ wire' = {}
  /\ UNCHANGED <<gamesFile, metaFile, backups, games, metadata, pageCount, addedCount,
                 failedAt, requests, pre, now, modified, runs, calls, first>>

\* FetchLastUpdate that saves the metadata before the catalog
FetchLastUpdateMetaFirst(resp, oG, oM) ==
  /\ pc = "await"
  /\ ~HasMore(resp)
  /\ Len(Accumulate(allApps, resp)) # 0
  /\ allApps' = Accumulate(allApps, resp)
  /\ hasMore' = HasMore(resp)
  /\ lastAppId' = NextCursor(resp)
  /\ responses' = Append(responses, resp)
  /\ LET m == mergeApps(games, allApps')
         md == NewMetadata(metadata, now, m.games, Len(allApps'), m.addedCount)
     IN  /\ games' = m.games
         /\ addedCount' = m.addedCount
         /\ metadata' = md
         /\ metaFile' = WriteMetaFile(metaFile, md, oM)
         /\ IF oM = "ok"
            THEN /\ gamesFile' = WriteGamesFile(gamesFile, m.games, oG)
                 /\ failedAt' = IF oG = "ok" THEN "none" ELSE "saveGames"
                 /\ exitCode' = IF oG = "ok" THEN 0 ELSE 1
            ELSE /\ UNCHANGED gamesFile
                 /\ failedAt' = "saveMeta"
                 /\ exitCode' = 1
  /\ pc' = "done"
  /\ wire' = {}
  /\ UNCHANGED <<backups, pageCount, requests, pre, now, modified, runs, calls, first>>

\* lines 112-141 for the last page, then lines 180-199, or 201-204 when a write throws
FetchLastUpdate(resp, oG, oM) ==
  /\ pc = "await"
  /\ ~HasMore(resp)
  /\ Len(Accumulate(allApps, resp)) # 0
  /\ allApps' = Accumulate(allApps, resp)
  /\ hasMore' = HasMore(resp)
  /\ lastAppId' = NextCursor(resp)
  /\ responses' = Append(responses, resp)
  /\ LET m == mergeApps(games, allApps')
         md == NewMetadata(metadata, now, m.games, Len(allApps'), m.addedCount)
     IN  /\ games' = m.games
         /\ addedCount' = m.addedCount
         /\ gamesFile' = WriteGamesFile(gamesFile, m.games, oG)
         /\ IF oG = "ok"
            THEN /\ metadata' = md
                 /\ metaFile' = WriteMetaFile(metaFile, md, oM)
                 /\ failedAt' = IF oM = "ok" THEN "none" ELSE "saveMeta"
                 /\ exitCode' = IF oM = "ok" THEN 0 ELSE 1
            ELSE /\ UNCHANGED <<metadata, metaFile>>
                 /\ failedAt' = "saveGames"
                 /\ exitCode' = 1
  /\ pc' = "done"
  /\ wire' = {}
  /\ UNCHANGED <<backups, pageCount, requests, pre, now, modified, runs, calls, first>>

\* time passes while a request is in flight
Tick ==
  /\ pc = "await"
  /\ now + TickMs <= MaxTimeMs
  /\ now' = now + TickMs
  /\ UNCHANGED <<gamesFile, metaFile, backups, pc, games, metadata, allApps, lastAppId,
                 pageCount, hasMore, addedCount, exitCode, failedAt, requests, responses,
                 pre, wire, modified, runs, calls, first>>

\* ---- one run against an arbitrary endpoint ----

GamesFiles ==
  {NoGamesFile}
    \cup [exists : {TRUE}, bom : BOOLEAN, kind : {"empty", "garbage", "nonarray"}, data : {<<>>}]
    \cup [exists : {TRUE}, bom : BOOLEAN, kind : {"array"}, data : SeqsUpTo(Ids, MaxCat)]

MetaObjects ==
  {[lastFetchTimestamp |-> w,
    lastUpdateDate |-> IF w = 0 THEN {} ELSE {w * MsPerSec},
    totalGames |-> 0,
    lastRunStats |-> {}] : w \in 0..MaxWm}

MetaFiles ==
  {NoMetaFile, [exists |-> TRUE, kind |-> "garbage", obj |-> DefaultMetadata]}
    \cup {StringifyMetadata(m) : m \in MetaObjects}

Init ==
  /\ gamesFile \in GamesFiles
  /\ metaFile \in MetaFiles
  /\ backups = 0
  /\ pc = "start"
  /\ games = <<>>
  /\ metadata = DefaultMetadata
  /\ allApps = <<>>
  /\ lastAppId = 0
  /\ pageCount = 0
  /\ hasMore = TRUE
  /\ addedCount = 0
  /\ exitCode = 0
  /\ failedAt = "none"
  /\ requests = <<>>
  /\ responses = <<>>
  /\ pre = [games |-> gamesFile, meta |-> metaFile]
  /\ now = StartMs
  /\ wire = {}
  /\ modified = [i \in Ids |-> 0]
  /\ runs = 1
  /\ calls = 0
  /\ first = <<>>

\* the answers of an endpoint whose cursor is the last identifier of the page it returns
EndpointResponses ==
  {r \in Responses :
     r.last_appid = (IF \E a \in r.apps : Len(a) > 0
                     THEN {a[Len(a)] : a \in r.apps}
                     ELSE {})}

Next ==
  \/ StartRun
  \/ StartRunFail
  \/ \E kind \in FailureKinds : FetchFail(kind)
  \/ \E resp \in EndpointResponses : FetchPageMore(resp)
  \/ Cooldown
  \/ \E resp \in EndpointResponses : FetchLastNoop(resp)
  \/ \E resp \in EndpointResponses, oG \in WriteOutcomes, oM \in WriteOutcomes :
       FetchLastUpdate(resp, oG, oM)
  \/ Tick

Spec == Init /\ [][Next]_vars

\* ---- fetchAllApps against an endpoint that answers anything ----

InitFetch ==
  /\ Init
  /\ gamesFile = NoGamesFile
  /\ metaFile \in {NoMetaFile} \cup {StringifyMetadata(m) : m \in MetaObjects}

NextFetch ==
  \/ StartRun
  \/ \E kind \in FailureKinds : FetchFail(kind)
  \/ \E resp \in Responses : FetchPageMore(resp)
  \/ Cooldown
  \/ \E resp \in Responses : FetchLastNoop(resp)
  \/ \E resp \in Responses : FetchLastUpdate(resp, "ok", "ok")

SpecFetch == InitFetch /\ [][NextFetch]_vars

\* ---- mergeApps called twice on the same array with the same records ----

InitMerge ==
  /\ games \in SeqsUpTo(Ids, MaxArr)
  /\ allApps \in SeqsUpTo(Ids, MaxRecs)
  /\ pc = "harness"
  /\ calls = 0
  /\ first = <<>>
  /\ addedCount = 0
  /\ gamesFile = NoGamesFile
  /\ metaFile = NoMetaFile
  /\ backups = 0
  /\ metadata = DefaultMetadata
  /\ lastAppId = 0
  /\ pageCount = 0
  /\ hasMore = TRUE
  /\ exitCode = 0
  /\ failedAt = "none"
  /\ requests = <<>>
  /\ responses = <<>>
  /\ pre = [games |-> gamesFile, meta |-> metaFile]
  /\ now = StartMs
  /\ wire = {}
  /\ modified = [i \in Ids |-> 0]
  /\ runs = 0

\* const { addedCount } = mergeApps(games, newApps)
CallMerge ==
  /\ pc = "harness"
  /\ calls < 2
  /\ LET m == mergeApps(games, allApps)
     IN  /\ games' = m.games
         /\ addedCount' = m.addedCount
         /\ first' = IF calls = 0 THEN m.games ELSE first
  /\ calls' = calls + 1
  /\ UNCHANGED <<gamesFile, metaFile, backups, pc, metadata, allApps, lastAppId,
                 pageCount, hasMore, exitCode, failedAt, requests, responses, pre, now,
                 wire, modified, runs>>

NextMerge == CallMerge

SpecMerge == InitMerge /\ [][NextMerge]_vars

\* ---- consecutive runs against a remote that filters by if_modified_since ----

RECURSIVE Ascending(_)
\* the identifiers of a set, ascending
Ascending(S) ==
  IF S = {} THEN <<>>
  ELSE LET m == CHOOSE x \in S : \A y \in S : x <= y
       IN  <<m>> \o Ascending(S \ {m})

\* the listing service: the apps after the cursor that were modified after
\* if_modified_since, ascending, PageSize of them at a time
RemoteAnswer(req) ==
  LET cursor == IF req.last_appid = {} THEN 0 ELSE CHOOSE c \in req.last_appid : TRUE
      cand == {i \in Ids : /\ modified[i] > 0
                           /\ i > cursor
                           /\ \A w \in req.if_modified_since : modified[i] > w}
      all == Ascending(cand)
      page == SubSeq(all, 1, IF Len(all) < PageSize THEN Len(all) ELSE PageSize)
  IN  [apps |-> {page},
       have_more_results |-> {Len(all) > PageSize},
       last_appid |-> IF page = <<>> THEN {} ELSE {page[Len(page)]}]

\* the remote computes its answer to the request in flight
RemoteServe ==
  /\ pc = "await"
  /\ wire = {}
  /\ wire' = {RemoteAnswer(requests[Len(requests)])}
  /\ UNCHANGED <<gamesFile, metaFile, backups, pc, games, metadata, allApps, lastAppId,
                 pageCount, hasMore, addedCount, exitCode, failedAt, requests, responses,
                 pre, now, modified, runs, calls, first>>

\* an app is created or modified on the remote
RemoteModify(i) ==
  /\ modified[i] < now \div MsPerSec
  /\ modified' = [modified EXCEPT ![i] = now \div MsPerSec]
  /\ UNCHANGED <<gamesFile, metaFile, backups, pc, games, metadata, allApps, lastAppId,
                 pageCount, hasMore, addedCount, exitCode, failedAt, requests, responses,
                 pre, now, wire, runs, calls, first>>

\* the script is started again, d milliseconds later
Restart(d) ==
  /\ pc = "done"
  /\ runs < MaxRuns
  /\ now + d <= MaxTimeMs
  /\ now' = now + d
  /\ runs' = runs + 1
  /\ pc' = "start"
  /\ exitCode' = 0
  /\ failedAt' = "none"
  /\ UNCHANGED <<gamesFile, metaFile, backups, games, metadata, allApps, lastAppId,
                 pageCount, hasMore, addedCount, requests, responses, pre, wire,
                 modified, calls, first>>

InitSync ==
  /\ Init
  /\ gamesFile = NoGamesFile
  /\ metaFile = NoMetaFile

NextSync ==
  \/ StartRun
  \/ RemoteServe
  \/ \E kind \in FailureKinds : FetchFail(kind)
  \/ \E resp \in wire : FetchPageMore(resp)
  \/ Cooldown
  \/ \E resp \in wire : FetchLastNoop(resp)
  \/ \E resp \in wire, oG \in WriteOutcomes, oM \in WriteOutcomes :
       FetchLastUpdate(resp, oG, oM)
  \/ Tick
  \/ \E i \in Ids : RemoteModify(i)
  \/ \E d \in {0, TickMs} : Restart(d)

SpecSync == InitSync /\ [][NextSync]_vars

\* ---- what the statements below speak of ----

\* the records of one page, none when the apps field is missing
PageRecords(r) == IF r.apps = {} THEN <<>> ELSE CHOOSE a \in r.apps : TRUE

RECURSIVE ConcatPages(_)
\* the records of all pages received, in the order received
ConcatPages(rs) == IF rs = <<>> THEN <<>> ELSE PageRecords(rs[1]) \o ConcatPages(Tail(rs))

MoreFlag(r) == r.have_more_results = {TRUE}

FetchFailed == failedAt \in FailureKinds

\* fetchAllApps returned to updateGamesDatabase
FetchReturned == pc = "done" /\ failedAt \in {"none", "saveGames", "saveMeta"}

\* the run went through mergeApps
Merged == FetchReturned /\ ConcatPages(responses) # <<>>

\* the watermark and the catalog the run loaded
Watermark == loadMetadata(pre.meta).metadata.lastFetchTimestamp
Loaded == loadGamesData(pre.games).games

NoDuplicates(s) == \A i, j \in 1..Len(s) : s[i] = s[j] => i = j
SortedAscending(s) == \A i, j \in 1..Len(s) : i < j => s[i] <= s[j]

BothOld == gamesFile = pre.games /\ metaFile = pre.meta
BothNew ==
  /\ Merged
  /\ gamesFile = StringifyGames(games)
  /\ metaFile = StringifyMetadata(metadata)
  /\ metadata.lastRunStats # {}

\* ---- fetchAllApps ----

\* C1: when pages 1..k carry have_more_results true and page k+1 carries it false or not
\* at all, fetchAllApps ends after exactly k+1 requests and returns the records of the
\* k+1 pages concatenated in the order received, duplicates kept; it ends nowhere else.
C1_Pagination ==
  /\ \A j \in 1..Len(responses) :
       ~MoreFlag(responses[j]) =>
          /\ j = Len(responses)
          /\ Len(requests) = j
          /\ FetchReturned
          /\ allApps = ConcatPages(responses)
  /\ FetchReturned => /\ Len(responses) >= 1
                      /\ ~MoreFlag(responses[Len(responses)])

\* three pages, the second without records, a record returned twice, the flag missing
\* from the last page
C1_Witness ==
  /\ FetchReturned
  /\ Len(requests) = 3
  /\ PageRecords(responses[2]) = <<>>
  /\ allApps = <<1, 1>>
  /\ responses[3].have_more_results = {}

\* C2: the first request carries no cursor; a later request carries the last_appid of the
\* response just before it when that is not zero, and none when it is zero or missing;
\* every request carries if_modified_since = watermark when the watermark is above 0 and
\* none when it is 0.
C2_RequestParameters ==
  \A j \in 1..Len(requests) :
    /\ requests[j].if_modified_since = (IF Watermark > 0 THEN {Watermark} ELSE {})
    /\ j = 1 => requests[j].last_appid = {}
    /\ j > 1 => requests[j].last_appid =
                  (IF responses[j - 1].last_appid \in {{}, {0}}
                   THEN {} ELSE responses[j - 1].last_appid)

C2_Witness ==
  /\ Len(requests) = 3
  /\ Watermark = 1
  /\ responses[1].last_appid = {2}
  /\ requests[2].last_appid = {2}
  /\ responses[2].last_appid = {0}
  /\ requests[3].last_appid = {}

\* ---- updateGamesDatabase ----

\* C3: when the request for a page fails (transport, status, body), that request is the
\* last one of the run, neither file is written, and the exit status is not zero.
C3_FetchFailureAborts ==
  FetchFailed =>
    /\ pc = "done"
    /\ Len(requests) = Len(responses) + 1
    /\ BothOld
    /\ exitCode # 0

\* the third page fails after records were accumulated
C3_Witness ==
  /\ failedAt = "malformed"
  /\ Len(responses) = 2
  /\ Len(allApps) = 2
  /\ gamesFile = NoGamesFile
  /\ exitCode = 1

\* C4: a run whose fetch returns no record leaves both files as they were, whatever they
\* held, and exits with status 0.
C4_NoopPreserves ==
  (FetchReturned /\ ConcatPages(responses) = <<>>) =>
    /\ BothOld
    /\ exitCode = 0

\* an unparsable catalog file (backed up) and a watermark on disk
C4_Witness ==
  /\ FetchReturned
  /\ ConcatPages(responses) = <<>>
  /\ Len(responses) = 2
  /\ pre.games.kind = "garbage"
  /\ backups = 1
  /\ Watermark = 1
  /\ exitCode = 0

\* C5 as stated: the two writes are one unit; whatever step fails, no run ends with the
\* catalog file rewritten with the new values of the run while the metadata file still
\* holds its contents of before the run.
C5_WritesAreOneUnit ==
  pc = "done" =>
    ~(/\ Merged
      /\ gamesFile = StringifyGames(games)
      /\ gamesFile # pre.games
      /\ metaFile = pre.meta)

\* C5 as amended: a failed fetch leaves both files as they were; the metadata file is
\* touched only after the catalog file holds the new catalog; a failed catalog write
\* leaves the metadata file as it was; a failed metadata write leaves the new catalog in
\* the catalog file.
C5_MetadataOnlyAfterCatalog ==
  pc = "done" =>
    /\ (FetchFailed \/ failedAt = "load") => BothOld
    /\ metaFile # pre.meta => (Merged /\ gamesFile = StringifyGames(games))
    /\ failedAt = "saveGames" => metaFile = pre.meta
    /\ failedAt = "saveMeta" => (Merged /\ gamesFile = StringifyGames(games))
    /\ (Merged /\ failedAt = "none") => BothNew

\* the catalog file was rewritten, the metadata file was not
C5_Witness ==
  /\ pc = "done"
  /\ failedAt = "saveMeta"
  /\ gamesFile = StringifyGames(games)
  /\ gamesFile # pre.games
  /\ metaFile = pre.meta
  /\ pre.meta.kind = "object"

\* ---- mergeApps ----

\* C6 as stated: whatever array was loaded, the catalog after mergeApps, and so the
\* catalog file an Update run saves, holds no identifier twice.
C6_NoDuplicatesEver ==
  Merged =>
    /\ NoDuplicates(games)
    /\ failedAt \in {"none", "saveMeta"} => NoDuplicates(loadGamesData(gamesFile).games)

\* C6 as amended: when the array that was loaded holds no identifier twice, the catalog
\* after mergeApps, and so the catalog file an Update run saves, holds none twice.
C6_NoNewDuplicates ==
  (Merged /\ NoDuplicates(Loaded)) =>
    /\ NoDuplicates(games)
    /\ failedAt \in {"none", "saveMeta"} =>
         /\ gamesFile = StringifyGames(games)
         /\ NoDuplicates(loadGamesData(gamesFile).games)

\* the records hold an identifier twice, the catalog saved holds it once
C6_Witness ==
  /\ Merged
  /\ failedAt = "none"
  /\ Loaded = <<2>>
  /\ ConcatPages(responses) = <<1, 1>>
  /\ loadGamesData(gamesFile).games = <<1, 2>>

\* C7: whatever array was loaded, sorted or not, and whatever the records, the catalog
\* after mergeApps, and so the catalog file an Update run saves, is in ascending order.
C7_SortedAfterMerge ==
  Merged =>
    /\ SortedAscending(games)
    /\ failedAt \in {"none", "saveMeta"} =>
         /\ gamesFile = StringifyGames(games)
         /\ SortedAscending(loadGamesData(gamesFile).games)

\* an unsorted catalog and records that add nothing
C7_Witness ==
  /\ Merged
  /\ failedAt = "none"
  /\ Loaded = <<2, 1>>
  /\ addedCount = 0
  /\ loadGamesData(gamesFile).games = <<1, 2>>

\* C8: a second mergeApps call with the same records leaves the catalog as the first
\* call left it and returns an added count of 0.
C8_MergeIdempotent ==
  calls = 2 => (games = first /\ addedCount = 0)

\* the first call added identifiers, out of order and with a repetition
C8_Witness ==
  /\ calls = 2
  /\ allApps = <<2, 1, 2>>
  /\ first = <<1, 2>>
  /\ games = <<1, 2>>

RECURSIVE SumLen(_)
\* the number of records received over all pages
SumLen(rs) == IF rs = <<>> THEN 0 ELSE Len(PageRecords(rs[1])) + SumLen(Tail(rs))

\* C9: after an Update run whose two writes succeeded, totalGames is the number of
\* entries of the catalog file, appsReceived the number of records fetched, gamesAdded
\* the count mergeApps returned, which is the growth of the catalog.
C9_MetadataDescribesRun ==
  (Merged /\ failedAt = "none") =>
    /\ metaFile.kind = "object"
    /\ metaFile.obj.totalGames = Len(loadGamesData(gamesFile).games)
    /\ metaFile.obj.lastRunStats =
         {[appsReceived |-> SumLen(responses), gamesAdded |-> addedCount]}
    /\ addedCount = Len(games) - Len(Loaded)

\* an empty catalog and the records 2, 1, 2: catalog 1, 2; received 3, added 2, total 2
C9_Witness ==
  /\ Merged
  /\ failedAt = "none"
  /\ Loaded = <<>>
  /\ ConcatPages(responses) = <<2, 1, 2>>
  /\ loadGamesData(gamesFile).games = <<1, 2>>
  /\ metaFile.obj.totalGames = 2
  /\ metaFile.obj.lastRunStats = {[appsReceived |-> 3, gamesAdded |-> 2]}

\* ---- consecutive runs ----

\* C10: when an Update run completes, every app modified on the remote after the
\* watermark the run sent was either returned to the run or was modified after the
\* watermark the run saves.
C10_NoModificationSkipped ==
  [][(pc = "await" /\ pc' = "done" /\ failedAt' = "none" /\ allApps' # <<>>) =>
       \A i \in Ids :
         modified'[i] > metadata.lastFetchTimestamp =>
           \/ i \in Range(allApps')
           \/ modified'[i] > metaFile'.obj.lastFetchTimestamp]_vars

====
